---- MODULE Spec2Model ----
(***************************************************************************)
(* FileStorage (src/index.js): a store that saves and reads named files    *)
(* either in a local directory or through 'save' / 'read' listeners.       *)
(*                                                                         *)
(* Strings are sequences of tokens: "/" and "\\" are the two separator     *)
(* characters, every other token stands for a non-empty run of ordinary    *)
(* characters.  File contents are JS values: a string (sequence of code    *)
(* points) or a Buffer (sequence of bytes).                                *)
(***************************************************************************)
EXTENDS Integers, Sequences, FiniteSets, TLC

VARIABLES
  directory,         \* this._directory
  directoryCreated,  \* this._directoryCreated
  listeners,         \* the EventEmitter's listeners of 'save' and of 'read'
  dirs,              \* the directories of the local filesystem
  files,             \* the files of the local filesystem: path -> bytes
  pend,              \* the asynchronous operations in flight
  calls,             \* the Async.each / Async.map batches in flight
  ncalls,            \* the number of calls made on the store so far
  wroteOK,           \* a local write completed since the last assignment
  saved,             \* per name: the last save known to have landed
  ev                 \* what the last call or callback did and delivered

vars == <<directory, directoryCreated, listeners,
          dirs, files, pend, calls, ncalls, wroteOK, saved, ev>>

-----------------------------------------------------------------------------
(* Bounds *)

\* the number of calls made on the store
MaxCalls == 2
\* the number of asynchronous operations in flight at once
MaxPending == 2

-----------------------------------------------------------------------------
(* JS values *)

Null      == [t |-> "null", s |-> <<>>]
Undefined == [t |-> "undefined", s |-> <<>>]
Str(s)    == [t |-> "str", s |-> s]
Buf(s)    == [t |-> "buf", s |-> s]

\* the directories a caller passes: "/a/b", "d", "/r/a"
DirChoices == { Str(<<"/", "a", "/", "b">>), Str(<<"d">>),
                Str(<<"/", "r", "/", "a">>) }
DirValues  == DirChoices \cup {Null, Undefined}

\* file names
Names == { <<"x">>, <<"y">> }

\* contents: a Buffer, and a one-character string outside ASCII
Contents == { Buf(<<7>>), Str(<<233>>) }

\* the functions registered as listeners
Fns == {"f"}

\* error values: JS falsy values, and Error objects
NotEnabled == "Error: File storage system is not enabled"
Falsy      == {"null", "undefined", "''"}
HandlerErrs == {"null", "undefined", "''", "Error: handler"}

\* the (err, file) pairs a 'read' listener calls back with
HandlerReads == { <<"null", Buf(<<9>>)>>, <<"''", Buf(<<9>>)>>,
                  <<"Error: handler", Undefined>> }

-----------------------------------------------------------------------------
(* The local filesystem: absolute paths are sequences of segments, a      *)
(* segment is a sequence of tokens.                                       *)

Root     == <<>>
Cwd      == << <<"w">> >>
ReadOnly == { << <<"r">> >> }
\* the filesystem the process starts on: the working directory /w, a
\* directory /r the process may not write into, and /w/d holding a file x
\* and a directory y
InitDirs  == { Root, Cwd, << <<"r">> >>, << <<"w">>, <<"d">> >>,
               << <<"w">>, <<"d">>, <<"y">> >> }
InitFiles == << <<"w">>, <<"d">>, <<"x">> >> :> <<1, 2>>

RECURSIVE SplitSlash(_, _)
\* s.split('/'), cur is the segment being read
SplitSlash(s, cur) ==
  IF s = <<>> THEN << cur >>
  ELSE IF Head(s) = "/" THEN << cur >> \o SplitSlash(Tail(s), <<>>)
  ELSE SplitSlash(Tail(s), Append(cur, Head(s)))

Split(s) == SplitSlash(s, <<>>)

RECURSIVE ReplaceBackslash(_)
\* s.replace(/\\/g, '/')
ReplaceBackslash(s) ==
  IF s = <<>> THEN <<>>
  ELSE << IF Head(s) = "\\" THEN "/" ELSE Head(s) >> \o ReplaceBackslash(Tail(s))

RECURSIVE NonEmpty(_)
NonEmpty(segs) ==
  IF segs = <<>> THEN <<>>
  ELSE IF Head(segs) = <<>> THEN NonEmpty(Tail(segs))
  ELSE << Head(segs) >> \o NonEmpty(Tail(segs))

\* what the OS makes of a path string: a leading '/' makes it absolute,
\* otherwise it is relative to the working directory; empty segments vanish
Resolve(s) ==
  IF s # <<>> /\ Head(s) = "/" THEN NonEmpty(Split(s))
  ELSE Cwd \o NonEmpty(Split(s))

Parent(p) == SubSeq(p, 1, Len(p) - 1)

\* fs.existsSync(path)
ExistsSync(s, ds, fl) == s # <<>> /\ (Resolve(s) \in ds \/ Resolve(s) \in DOMAIN fl)

\* fs.mkdirSync(path): "ok" or the errno it throws
MkdirSync(s, ds, fl) ==
  IF s = <<>> THEN "ENOENT"
  ELSE IF Resolve(s) \in ds \/ Resolve(s) \in DOMAIN fl THEN "EEXIST"
  ELSE IF Parent(Resolve(s)) \notin ds THEN "ENOENT"
  ELSE IF Parent(Resolve(s)) \in ReadOnly THEN "EACCES"
  ELSE "ok"

\* String(v) as in v + '/' + name
ToStr(v) == IF v.t = "null" THEN <<"null">>
            ELSE IF v.t = "undefined" THEN <<"undefined">>
            ELSE v.s

\* the truthiness of a directory value (!dir)
DirTruthy(v) == v.t = "str" /\ v.s # <<>>

-----------------------------------------------------------------------------
(* checkDirExists *)

RECURSIVE Walk(_, _, _, _)
\* the forEach of checkDirExists from segment `index` (0-based) on; `path` is
\* the closure's path string, `st` what the walk has done so far
Walk(segs, index, path, st) ==
  IF index >= Len(segs) \/ st.raised # "no" THEN st
  ELSE LET dir   == segs[index + 1]
           path2 == IF index = 0 /\ dir = <<>> THEN <<"/">>
                    ELSE path \o (IF path # <<>> THEN <<"/">> ELSE <<>>) \o dir
           there == ExistsSync(path2, st.dirs, files)
           mk    == MkdirSync(path2, st.dirs, files)
           st2   == IF there THEN [st EXCEPT !.exists = @ + 1]
                    ELSE IF mk = "ok"
                    THEN [st EXCEPT !.exists = @ + 1,
                                    !.dirs = @ \cup {Resolve(path2)},
                                    !.made = Append(@, Resolve(path2))]
                    ELSE [st EXCEPT !.exists = @ + 1, !.raised = mk]
       IN Walk(segs, index + 1, path2, st2)

\* checkDirExists with the path split as given, '\' left in place
CheckDirExistsSplitOnly(dir, st) ==
  IF ~DirTruthy(dir) THEN st
  ELSE Walk(Split(dir.s), 0, <<>>, st)

\* checkDirExists(dir) on a store state st
CheckDirExists(dir, st) ==
  IF ~DirTruthy(dir) THEN st
  ELSE Walk(Split(ReplaceBackslash(dir.s)), 0, <<>>, st)

-----------------------------------------------------------------------------
(* FileStorage *)

\* this.listeners(e).length
ListenerCount(e) == Cardinality(listeners[e])

IsEnabled ==
  (ListenerCount("save") > 0 /\ ListenerCount("read") > 0) \/ directory # Null

RECURSIVE Utf8(_)
\* the UTF-8 encoding of a sequence of code points below 2048
Utf8(cps) ==
  IF cps = <<>> THEN <<>>
  ELSE (IF Head(cps) < 128 THEN << Head(cps) >>
        ELSE << 192 + (Head(cps) \div 64), 128 + (Head(cps) % 64) >>)
       \o Utf8(Tail(cps))

\* typeof contents === 'string' ? new Buffer(contents, 'utf8') : contents
ToBuffer(c) == IF c.t = "str" THEN Buf(Utf8(c.s)) ELSE c

\* this.directory + '/' + filename
FilePath(name) == ToStr(directory) \o <<"/">> \o name

NoSave == [ok |-> FALSE, arg |-> Undefined, over |-> FALSE]

\* an operation in flight: a write or read of the local filesystem, or a
\* 'save' / 'read' event whose listeners have not all called back yet; dir is
\* this.directory as a local write or read found it (lines 68 and 99)
Op(call, idx, kind, name, path, data, arg, left, expect) ==
  [call |-> call, idx |-> idx, kind |-> kind, name |-> name, path |-> path,
   dir |-> IF kind \in {"write", "read"} THEN directory ELSE Null,
   data |-> data, arg |-> arg, left |-> left, cur |-> TRUE, expect |-> expect]

\* the store as one call sees it while it runs
Sync0 ==
  [dirs |-> dirs, created |-> directoryCreated, pend |-> pend, exists |-> 0,
   made |-> <<>>, raised |-> "no", sync |-> <<>>, sent |-> <<>>]

\* the path fs.writeFile is given
WritePath(name) == Resolve(FilePath(name))

\* saveFile with the directory checked before the listeners are looked at
SaveFileChecksFirst(st, id, idx, name, contents) ==
  IF st.raised # "no" THEN st
  ELSE IF ~IsEnabled THEN [st EXCEPT !.sync = Append(@, NotEnabled)]
  ELSE LET w == CheckDirExists(directory, st)
       IN IF w.raised # "no" THEN w
          ELSE IF ListenerCount("save") > 0
          THEN [w EXCEPT
                  !.created = TRUE,
                  !.pend = @ \cup {Op(id, idx, "save", name, <<>>,
                                      ToBuffer(contents), contents,
                                      ListenerCount("save"), NoSave)},
                  !.sent = Append(@, [name |-> name, data |-> ToBuffer(contents)])]
          ELSE [w EXCEPT
                  !.created = TRUE,
                  !.pend = @ \cup {Op(id, idx, "write", name,
                                      Resolve(FilePath(name)),
                                      ToBuffer(contents), contents, 1, NoSave)}]

\* saveFile(filename, contents, callback) up to its return; id and idx name
\* the callback
SaveFileSync(st, id, idx, name, contents) ==
  IF st.raised # "no" THEN st
  ELSE IF ~IsEnabled THEN [st EXCEPT !.sync = Append(@, NotEnabled)]
  ELSE IF ListenerCount("save") > 0
  THEN [st EXCEPT
          !.pend = @ \cup {Op(id, idx, "save", name, <<>>, ToBuffer(contents),
                              contents, ListenerCount("save"), NoSave)},
          !.sent = Append(@, [name |-> name, data |-> ToBuffer(contents)])]
  ELSE LET w == CheckDirExists(directory, st)
       IN IF w.raised # "no" THEN w
          ELSE [w EXCEPT
                  !.created = TRUE,
                  !.pend = @ \cup {Op(id, idx, "write", name, WritePath(name),
                                      ToBuffer(contents), contents, 1, NoSave)}]

\* readFile that hands the name to the listeners only when 'save' and 'read'
\* both have one
ReadFileNeedsBoth(st, id, idx, name) ==
  IF ~IsEnabled THEN [st EXCEPT !.sync = Append(@, NotEnabled)]
  ELSE IF ListenerCount("read") > 0 /\ ListenerCount("save") > 0
  THEN [st EXCEPT
          !.pend = @ \cup {Op(id, idx, "emitread", name, <<>>, Undefined,
                              Undefined, ListenerCount("read"), NoSave)},
          !.sent = Append(@, [name |-> name, data |-> Undefined])]
  ELSE [st EXCEPT
          !.pend = @ \cup {Op(id, idx, "read", name, WritePath(name), Undefined,
                              Undefined, 1, saved[name])}]

\* readFile(filename, callback) up to its return
ReadFileSync(st, id, idx, name) ==
  IF ~IsEnabled THEN [st EXCEPT !.sync = Append(@, NotEnabled)]
  ELSE IF ListenerCount("read") > 0
  THEN [st EXCEPT
          !.pend = @ \cup {Op(id, idx, "emitread", name, <<>>, Undefined,
                              Undefined, ListenerCount("read"), NoSave)},
          !.sent = Append(@, [name |-> name, data |-> Undefined])]
  ELSE [st EXCEPT
          !.pend = @ \cup {Op(id, idx, "read", name, WritePath(name), Undefined,
                              Undefined, 1, saved[name])}]

\* a save of `name` was issued: what was known of name's file is void
Unsave(sv, names) == [n \in Names |-> IF n \in names THEN NoSave ELSE sv[n]]
Unexpect(ps, names) ==
  { IF p.kind = "read" /\ p.name \in names THEN [p EXCEPT !.expect = NoSave] ELSE p
    : p \in ps }

-----------------------------------------------------------------------------
(* Construction and configuration *)

\* new FileStorage(directory); with no argument directory is undefined
Init ==
  /\ directory \in DirValues
  /\ directoryCreated = FALSE
  /\ listeners = [e \in {"save", "read"} |-> {}]
  /\ dirs = InitDirs
  /\ files = InitFiles
  /\ pend = {}
  /\ calls = << >>
  /\ ncalls = 0
  /\ wroteOK = FALSE
  /\ saved = [n \in Names |-> NoSave]
  /\ ev = [op |-> "new"]

\* storage.directory = newDir
SetDirectory(newDir) ==
  /\ directory' = newDir
  /\ directoryCreated' = FALSE
  /\ wroteOK' = FALSE
  /\ saved' = [n \in Names |-> NoSave]
  /\ pend' = { [p EXCEPT !.cur = FALSE, !.expect = NoSave] : p \in pend }
  /\ ev' = [op |-> "directory="]
  /\ UNCHANGED <<listeners, dirs, files, calls, ncalls>>

\* storage.on(e, fn)
On(e, fn) ==
  /\ fn \notin listeners[e]
  /\ listeners' = [listeners EXCEPT ![e] = @ \cup {fn}]
  /\ UNCHANGED <<directory, directoryCreated, dirs, files, pend, calls, ncalls,
                 wroteOK, saved, ev>>

\* storage.removeListener(e, fn)
RemoveListener(e, fn) ==
  /\ fn \in listeners[e]
  /\ listeners' = [listeners EXCEPT ![e] = @ \ {fn}]
  /\ UNCHANGED <<directory, directoryCreated, dirs, files, pend, calls, ncalls,
                 wroteOK, saved, ev>>

\* storage.isEnabled()
IsEnabledCall ==
  /\ ncalls < MaxCalls
  /\ ncalls' = ncalls + 1
  /\ ev' = [op |-> "isEnabled", ret |-> IsEnabled]
  /\ UNCHANGED <<directory, directoryCreated, listeners, dirs, files, pend,
                 calls, wroteOK, saved>>

-----------------------------------------------------------------------------
(* Async.each and Async.map, as saveFiles and readFiles use them *)

Truthy(e) == e \notin Falsy

Absent == [t |-> "absent", s |-> <<>>]
Hole   == [filename |-> <<>>, error |-> "hole", contents |-> Absent]

\* a batch: the collection `names`, the items whose callback has run
\* (settled, in the order `order`, with the values `got`), and what Async
\* keeps: the count of completed items, whether the final callback was
\* replaced by a no-op, the results; cb counts the final callback's runs
Batch(kind, names) ==
  [kind |-> kind, n |-> Len(names), names |-> names, settled |-> {},
   order |-> <<>>, got |-> <<>>, completed |-> 0, noop |-> FALSE,
   cb |-> 0, err |-> "none", res |-> [i \in 1..Len(names) |-> Hole]]

\* the callback Async.each hands the iterator for item idx is called with err
EachDone(b, idx, err) ==
  IF idx \in b.settled THEN b
  ELSE IF Truthy(err)
  THEN [b EXCEPT !.settled = @ \cup {idx},
                 !.cb = IF b.noop THEN @ ELSE @ + 1,
                 !.err = IF b.noop THEN @ ELSE err,
                 !.noop = TRUE]
  ELSE [b EXCEPT !.settled = @ \cup {idx},
                 !.completed = @ + 1,
                 !.cb = IF ~b.noop /\ b.completed + 1 >= b.n THEN @ + 1 ELSE @,
                 !.err = IF ~b.noop /\ b.completed + 1 >= b.n THEN "null" ELSE @]

\* the function readFiles hands readFile for one name (lines 110-120)
Response(name, err, file) ==
  IF Truthy(err) THEN [filename |-> name, error |-> err, contents |-> Absent]
  ELSE [filename |-> name, error |-> "absent", contents |-> file]

\* results.push(v) in place of results[idx] = v
MapDonePushes(b, idx, err, v) ==
  IF idx \in b.settled \/ Truthy(err) THEN b
  ELSE [b EXCEPT !.settled = @ \cup {idx},
                 !.completed = @ + 1,
                 !.res = [@ EXCEPT ![b.completed + 1] = v],
                 !.cb = IF b.completed + 1 >= b.n THEN @ + 1 ELSE @,
                 !.err = IF b.completed + 1 >= b.n THEN "null" ELSE @]

\* the callback Async.map hands the iterator for item idx is called with
\* (err, v)
MapDone(b, idx, err, v) ==
  IF idx \in b.settled THEN b
  ELSE IF Truthy(err)
  THEN [b EXCEPT !.settled = @ \cup {idx},
                 !.cb = IF b.noop THEN @ ELSE @ + 1,
                 !.err = IF b.noop THEN @ ELSE err,
                 !.noop = TRUE]
  ELSE [b EXCEPT !.settled = @ \cup {idx},
                 !.completed = @ + 1,
                 !.res = [@ EXCEPT ![idx] = v],
                 !.cb = IF ~b.noop /\ b.completed + 1 >= b.n THEN @ + 1 ELSE @,
                 !.err = IF ~b.noop /\ b.completed + 1 >= b.n THEN "null" ELSE @]

\* cb(err, response) in place of cb(null, response)
ReadFilesPassesError(b, idx, name, err, file) ==
  MapDone(b, idx, err, Response(name, err, file))

\* the responses collected as they arrive
ReadFilesPushes(b, idx, name, err, file) ==
  MapDonePushes(b, idx, "null", Response(name, err, file))

\* the function readFiles hands readFile as the callback of item idx
\* (lines 110-120), cb being Async.map's

ReadFilesCallback(b, idx, name, err, file) ==
  MapDone(b, idx, "null", Response(name, err, file))

\* one item callback of batch b: saveFile is handed Async.each's callback,
\* readFile the function above
ItemDone(b, idx, name, err, file) ==
  LET b2 == IF idx \in b.settled THEN b
            ELSE [b EXCEPT !.order = Append(@, idx),
                           !.got = Append(@, [err |-> err, file |-> file])]
  IN IF b.kind = "saveFiles" THEN EachDone(b2, idx, err)
     ELSE ReadFilesCallback(b2, idx, name, err, file)

RECURSIVE ItemsDone(_, _, _, _)
\* the item callbacks that ran before the call returned, in order
ItemsDone(b, idx, names, errs) ==
  IF idx > Len(errs) THEN b
  ELSE ItemsDone(ItemDone(b, idx, names[idx], errs[idx], Undefined),
                 idx + 1, names, errs)

Without(f, id) == [i \in DOMAIN f \ {id} |-> f[i]]

\* a batch is dropped once every item has called back
Keep(cs, id, b) ==
  IF b.settled = 1..b.n THEN Without(cs, id) ELSE (id :> b) @@ Without(cs, id)

-----------------------------------------------------------------------------
(* The calls *)

\* the argument of saveFiles: an object, as the sequence of its entries in
\* Object.keys order
Entry(name, arg) == [name |-> name, arg |-> arg]
Mappings ==
  { m \in UNION { [1..n -> {Entry(nm, c) : nm \in Names, c \in Contents}]
                  : n \in 0..MaxPending }
    : \A i, j \in DOMAIN m : i # j => m[i].name # m[j].name }

NameLists == UNION { [1..n -> Names] : n \in 0..MaxPending }

NamesOf(m) == [i \in DOMAIN m |-> m[i].name]

RECURSIVE SaveEach(_, _, _, _)
\* the iteration of Async.each over the entries: saveFile for each in turn,
\* cut short when one raises
SaveEach(st, id, idx, m) ==
  IF idx > Len(m) THEN st
  ELSE SaveEach(SaveFileSync(st, id, idx, m[idx].name, m[idx].arg), id, idx + 1, m)

RECURSIVE ReadEach(_, _, _, _)
ReadEach(st, id, idx, names) ==
  IF idx > Len(names) THEN st
  ELSE ReadEach(ReadFileSync(st, id, idx, names[idx]), id, idx + 1, names)

\* the call leaves no more than MaxPending operations in flight
Room(st) == Cardinality(st.pend) <= MaxPending

\* the caller's callback of a single saveFile or readFile, after the
\* callbacks `errs` that ran before the call returned
Single(names, errs) ==
  [Batch("single", names) EXCEPT
     !.cb = Len(errs),
     !.err = IF errs = <<>> THEN "none" ELSE errs[1],
     !.settled = IF errs = <<>> THEN {} ELSE {1},
     !.got = [i \in 1..Len(errs) |-> [err |-> errs[i], file |-> Undefined]]]

\* what a call did before it returned
Did(op, st, args, b) ==
  [op |-> op, args |-> args, enabled |-> IsEnabled, dir |-> directory,
   nsave |-> ListenerCount("save"), nread |-> ListenerCount("read"),
   createdBefore |-> directoryCreated, okBefore |-> wroteOK,
   exists |-> st.exists, made |-> st.made, raised |-> st.raised,
   sent |-> st.sent, issued |-> st.pend \ pend,
   dirsSame |-> st.dirs = dirs, createdAfter |-> st.created,
   cb |-> b.cb, err |-> b.err, ferr |-> b.err, res |-> b.res,
   names |-> b.names, got |-> b.got, order |-> b.order,
   open |-> (1..b.n) \ b.settled]

SaveFile(name, contents) ==
  /\ ncalls < MaxCalls
  /\ ncalls' = ncalls + 1
  /\ LET st == SaveFileSync(Sync0, ncalls + 1, 0, name, contents)
     IN /\ Room(st)
        /\ dirs' = st.dirs
        /\ directoryCreated' = st.created
        /\ pend' = Unexpect(st.pend, {name})
        /\ ev' = Did("saveFile", st, <<Entry(name, contents)>>,
                     Single(<<name>>, st.sync))
  /\ saved' = Unsave(saved, {name})
  /\ UNCHANGED <<directory, listeners, files, calls, wroteOK>>

SaveFiles(m) ==
  /\ ncalls < MaxCalls
  /\ ncalls' = ncalls + 1
  /\ LET id == ncalls + 1
         st == SaveEach(Sync0, id, 1, m)
         \* Async.each calls back at once for an empty collection
         b0 == Batch("saveFiles", NamesOf(m))
         b  == IF Len(m) = 0 THEN [b0 EXCEPT !.cb = 1, !.err = "null"]
               ELSE ItemsDone(b0, 1, NamesOf(m), st.sync)
     IN /\ Room(st)
        /\ dirs' = st.dirs
        /\ directoryCreated' = st.created
        /\ pend' = Unexpect(st.pend, {m[i].name : i \in DOMAIN m})
        /\ calls' = Keep(calls, id, b)
        /\ ev' = Did("saveFiles", st, m, b)
  /\ saved' = Unsave(saved, {m[i].name : i \in DOMAIN m})
  /\ UNCHANGED <<directory, listeners, files, wroteOK>>

ReadFile(name) ==
  /\ ncalls < MaxCalls
  /\ ncalls' = ncalls + 1
  /\ LET st == ReadFileSync(Sync0, ncalls + 1, 0, name)
     IN /\ Room(st)
        /\ pend' = st.pend
        /\ ev' = Did("readFile", st, <<name>>, Single(<<name>>, st.sync))
  /\ UNCHANGED <<directory, directoryCreated, listeners, dirs, files, calls,
                 wroteOK, saved>>

ReadFiles(names) ==
  /\ ncalls < MaxCalls
  /\ ncalls' = ncalls + 1
  /\ LET id == ncalls + 1
         st == ReadEach(Sync0, id, 1, names)
         b0 == Batch("readFiles", names)
         b  == IF Len(names) = 0 THEN [b0 EXCEPT !.cb = 1, !.err = "null"]
               ELSE ItemsDone(b0, 1, names, st.sync)
     IN /\ Room(st)
        /\ pend' = st.pend
        /\ calls' = Keep(calls, id, b)
        /\ ev' = Did("readFiles", st, names, b)
  /\ UNCHANGED <<directory, directoryCreated, listeners, dirs, files, wroteOK,
                 saved>>

-----------------------------------------------------------------------------
(* The completions *)

\* the directory is read again when the operation completes
TargetNow(p) == WritePath(p.name)

\* the path an operation works on: the string fs.writeFile or fs.readFile
\* was handed by the call
Target(p) == p.path

\* fs.writeFile(path, data): the error it calls back with
WriteError(path) ==
  IF path \in dirs THEN "EISDIR"
  ELSE IF Parent(path) \notin dirs THEN "ENOENT"
  ELSE IF Parent(path) \in ReadOnly THEN "EACCES"
  ELSE "null"

\* flag 'a' in place of 'w': the data lands behind what the file held
WriteFileAppends(fl, path, data) ==
  (path :> (IF path \in DOMAIN fl THEN fl[path] ELSE <<>>) \o data.s) @@ fl

\* fs.writeFile(path, data): the files once it has succeeded (flag 'w')
WriteFileData(fl, path, data) == (path :> data.s) @@ fl

\* fs.readFile(path): the error it calls back with
ReadError(path) ==
  IF path \in dirs THEN "EISDIR"
  ELSE IF path \notin DOMAIN files THEN "ENOENT"
  ELSE "null"

\* callback(err) in place of callback(err || null)
SaveHandlerCallbackRaw(err) == err

\* the callback saveFile hands the 'save' listeners (lines 56-60)
SaveHandlerCallback(err) == IF Truthy(err) THEN err ELSE "null"

\* what is left of p once one of its callbacks has run
After(p) == IF p.left > 1 THEN {[p EXCEPT !.left = @ - 1]} ELSE {}

\* the batch of p after its item callback ran with (err, file)
BatchAfter(p, err, file) == ItemDone(calls[p.call], p.idx, p.name, err, file)

\* what a completion delivered; given is what the filesystem or the
\* listener supplied, err and file what the caller's callback received
Got(p, given, err, file) ==
  LET batch == p.idx > 0 /\ p.call \in DOMAIN calls
      b     == BatchAfter(p, err, file)
  IN [op |-> "callback", kind |-> p.kind, call |-> p.call, idx |-> p.idx,
      name |-> p.name, dir |-> p.dir, data |-> p.data, arg |-> p.arg,
      expect |-> p.expect, given |-> given,
      err |-> err, file |-> file,
      ignored |-> p.idx > 0 /\ (~batch \/ p.idx \in calls[p.call].settled),
      final |-> batch /\ b.cb > calls[p.call].cb,
      cb |-> IF batch THEN b.cb ELSE 0,
      ferr |-> IF batch THEN b.err ELSE "none",
      res |-> IF batch THEN b.res ELSE <<>>,
      names |-> IF batch THEN b.names ELSE <<>>,
      order |-> IF batch THEN b.order ELSE <<>>,
      got |-> IF batch THEN b.got ELSE <<>>,
      open |-> IF batch THEN (1..b.n) \ b.settled ELSE {}]

Deliver(p, given, err, file) ==
  /\ pend' = (pend \ {p}) \cup After(p)
  /\ calls' = IF p.idx > 0 /\ p.call \in DOMAIN calls
              THEN Keep(calls, p.call, BatchAfter(p, err, file))
              ELSE calls
  /\ ev' = Got(p, given, err, file)

\* fs.writeFile finishes
WriteComplete(p) ==
  /\ p.kind = "write"
  /\ LET err == WriteError(Target(p))
         alone == \A q \in pend \ {p} : ~(q.kind = "write" /\ q.name = p.name)
     IN /\ files' = IF err = "null" THEN WriteFileData(files, Target(p), p.data)
                    ELSE files
        /\ wroteOK' = (wroteOK \/ (err = "null" /\ p.cur))
        /\ saved' = [saved EXCEPT ![p.name] =
                       IF err = "null" /\ p.cur /\ alone
                       THEN [ok |-> TRUE, arg |-> p.arg,
                             over |-> Target(p) \in DOMAIN files
                                      /\ files[Target(p)] # p.data.s]
                       ELSE NoSave]
        /\ Deliver(p, err, err, Undefined)
  /\ UNCHANGED <<directory, directoryCreated, listeners, dirs, ncalls>>

\* fs.readFile finishes
ReadComplete(p) ==
  /\ p.kind = "read"
  /\ LET err == ReadError(Target(p))
     IN Deliver(p, err, err,
                IF err = "null" THEN Buf(files[Target(p)]) ELSE Undefined)
  /\ UNCHANGED <<directory, directoryCreated, listeners, dirs, files, ncalls,
                 wroteOK, saved>>

\* a 'save' listener calls the callback it was given with err
SaveHandlerDone(p, err) ==
  /\ p.kind = "save"
  /\ Deliver(p, err, SaveHandlerCallback(err), Undefined)
  /\ UNCHANGED <<directory, directoryCreated, listeners, dirs, files, ncalls,
                 wroteOK, saved>>

\* a 'read' listener calls the callback it was given with (err, file)
ReadHandlerDone(p, err, file) ==
  /\ p.kind = "emitread"
  /\ Deliver(p, err, err, file)
  /\ UNCHANGED <<directory, directoryCreated, listeners, dirs, files, ncalls,
                 wroteOK, saved>>

-----------------------------------------------------------------------------

\* every operation of the store; the directory is assigned while nothing is
\* in flight (SpecLocal and SpecBatch assign it at any point)
Next ==
  \/ \E d \in DirValues : pend = {} /\ SetDirectory(d)
  \/ \E e \in {"save", "read"}, fn \in Fns : On(e, fn)
  \/ \E e \in {"save", "read"}, fn \in Fns : RemoveListener(e, fn)
  \/ IsEnabledCall
  \/ \E n \in Names, c \in Contents : SaveFile(n, c)
  \/ \E m \in Mappings : SaveFiles(m)
  \/ \E n \in Names : ReadFile(n)
  \/ \E ns \in NameLists : ReadFiles(ns)
  \/ \E p \in pend : WriteComplete(p)
  \/ \E p \in pend : ReadComplete(p)
  \/ \E p \in pend, e \in HandlerErrs : SaveHandlerDone(p, e)
  \/ \E p \in pend, r \in HandlerReads : ReadHandlerDone(p, r[1], r[2])

Spec == Init /\ [][Next]_vars

-----------------------------------------------------------------------------
(* A store that is only read from, one readFiles at a time. *)

NextRead ==
  \/ \E e \in {"save", "read"}, fn \in Fns : On(e, fn)
  \/ \E e \in {"save", "read"}, fn \in Fns : RemoveListener(e, fn)
  \/ \E ns \in NameLists : pend = {} /\ ReadFiles(ns)
  \/ \E p \in pend : ReadComplete(p)
  \/ \E p \in pend, r \in HandlerReads : ReadHandlerDone(p, r[1], r[2])

SpecRead == Init /\ [][NextRead]_vars

(* A store whose files are saved and read one at a time, in the directory *)
(* it was constructed with or through its listeners.                     *)

NextSingle ==
  \/ \E e \in {"save", "read"}, fn \in Fns : On(e, fn)
  \/ \E e \in {"save", "read"}, fn \in Fns : RemoveListener(e, fn)
  \/ \E n \in Names, c \in Contents : SaveFile(n, c)
  \/ \E n \in Names : ReadFile(n)
  \/ \E p \in pend : WriteComplete(p)
  \/ \E p \in pend : ReadComplete(p)
  \/ \E p \in pend, e \in HandlerErrs : SaveHandlerDone(p, e)
  \/ \E p \in pend, r \in HandlerReads : ReadHandlerDone(p, r[1], r[2])

SpecSingle == Init /\ [][NextSingle]_vars

(* A store with no listeners whose directory is reassigned at will. *)

\* the directories assigned to it: those above, and "a\b"
LocalDirs == DirValues \cup { Str(<<"a", "\\", "b">>) }

NextLocal ==
  \/ \E d \in LocalDirs : SetDirectory(d)
  \/ \E n \in Names, c \in Contents : SaveFile(n, c)
  \/ \E n \in Names : ReadFile(n)
  \/ \E p \in pend : WriteComplete(p)
  \/ \E p \in pend : ReadComplete(p)

SpecLocal == Init /\ [][NextLocal]_vars

(* A store with no listeners that saves once nothing is in flight, a file *)
(* or a batch at a time.                                                 *)

NextBatch ==
  \/ \E d \in DirValues : SetDirectory(d)
  \/ \E n \in Names, c \in Contents : pend = {} /\ SaveFile(n, c)
  \/ \E m \in Mappings : pend = {} /\ SaveFiles(m)
  \/ \E n \in Names : ReadFile(n)
  \/ \E p \in pend : WriteComplete(p)
  \/ \E p \in pend : ReadComplete(p)

SpecBatch == Init /\ [][NextBatch]_vars

-----------------------------------------------------------------------------
(* checkDirExists on its own: the helper is run, and run again, on a path  *)
(* and a filesystem drawn from the sets below.                             *)

\* the number of segments of a path
MaxDepth == 3

Segments == { <<"a">>, <<"b">>, <<"c">>, <<"r">>, <<>> }

RECURSIVE Join(_, _)
\* segs.join(sep)
Join(segs, sep) ==
  IF segs = <<>> THEN <<>>
  ELSE IF Len(segs) = 1 THEN segs[1]
  ELSE Head(segs) \o <<sep>> \o Join(Tail(segs), sep)

\* the values checkDirExists is given: null, undefined, '' and paths of up
\* to MaxDepth segments, absolute or relative, written with '/' or with '\'
WalkInputs ==
  {Null, Undefined} \cup
  { Str(lead \o Join(segs, sep)) :
      lead \in {<<>>, <<"/">>, <<"\\">>}, sep \in {"/", "\\"},
      segs \in UNION { [1..n -> Segments] : n \in 0..MaxDepth } }

\* the filesystems it runs on: besides the directories above none, /a,
\* /a and /a/b, or /w/a; and possibly a file /b
WalkDirs ==
  { InitDirs \cup extra :
      extra \in { {}, { << <<"a">> >> },
                  { << <<"a">> >>, << <<"a">>, <<"b">> >> },
                  { << <<"w">>, <<"a">> >> } } }
WalkFiles == { InitFiles, (<< <<"b">> >> :> <<3>>) @@ InitFiles }

InitWalk ==
  /\ directory \in WalkInputs
  /\ directoryCreated = FALSE
  /\ listeners = [e \in {"save", "read"} |-> {}]
  /\ dirs \in WalkDirs
  /\ files \in WalkFiles
  /\ pend = {}
  /\ calls = << >>
  /\ ncalls = 0
  /\ wroteOK = FALSE
  /\ saved = [n \in Names |-> NoSave]
  /\ ev = [op |-> "new"]

\* checkDirExists(this.directory)
CheckDirExistsCall ==
  /\ ncalls < MaxCalls
  /\ ncalls' = ncalls + 1
  /\ LET st == CheckDirExists(directory, Sync0)
     IN /\ dirs' = st.dirs
        /\ ev' = [op |-> "checkDirExists", dir |-> directory, before |-> dirs,
                  exists |-> st.exists, made |-> st.made, raised |-> st.raised,
                  prev |-> IF ev.op = "checkDirExists" THEN ev.raised
                           ELSE "none"]
  /\ UNCHANGED <<directory, directoryCreated, listeners, files, pend, calls,
                 wroteOK, saved>>

NextWalk == CheckDirExistsCall

SpecWalk == InitWalk /\ [][NextWalk]_vars

-----------------------------------------------------------------------------
(* Claims *)

\* a directory is configured: the store was given a path
Configured(d) == d.t = "str"

IsCall(ops) == ev.op \in ops

\* C1: in every reachable state isEnabled() is true exactly when a directory
\* is configured or both a 'save' and a 'read' listener are registered
C1_EnabledIffConfigured ==
  IsEnabled <=> (Configured(directory)
                 \/ (listeners["save"] # {} /\ listeners["read"] # {}))

\* C2: on a store with neither a directory nor listeners every operation,
\* whatever its argument, calls back once with the not-enabled error and
\* touches nothing
C2_DisabledAlwaysFails ==
  (IsCall({"saveFile", "saveFiles", "readFile", "readFiles"})
   /\ ~Configured(ev.dir) /\ ev.nsave = 0 /\ ev.nread = 0)
  => /\ ev.cb = 1 /\ ev.err = NotEnabled
     /\ ev.raised = "no" /\ ev.exists = 0 /\ ev.made = <<>> /\ ev.dirsSame
     /\ ev.createdAfter = ev.createdBefore
     /\ ev.sent = <<>> /\ ev.issued = {}

\* the bytes a caller means by contents: a Buffer's own, a string's UTF-8
BytesOf(c) == IF c.t = "str" THEN Utf8(c.s) ELSE c.s

IsCallback(kinds) == ev.op = "callback" /\ ev.kind \in kinds

\* C3: a local read issued once saveFile(N, B) has succeeded, with no save
\* of N and no assignment of directory in between, succeeds with the bytes
\* of B
C3_RoundTrip ==
  (IsCallback({"read"}) /\ ev.expect.ok)
  => (ev.err = "null" /\ ev.file = Buf(BytesOf(ev.expect.arg)))

\* the read returns a string's bytes that replaced other contents
C3_Witness ==
  /\ IsCallback({"read"}) /\ ev.expect.ok /\ ev.expect.over
  /\ ev.expect.arg.t = "str" /\ ev.err = "null"

\* a readFiles has just called back
ReadFilesFinal ==
  \/ IsCall({"readFiles"}) /\ ev.cb > 0
  \/ IsCallback({"read", "emitread"}) /\ ev.idx > 0 /\ ev.final

\* the position of item i in the order of completion
Place(order, i) == CHOOSE k \in 1..Len(order) : order[k] = i

\* C4: the list readFiles delivers has one element per name, element i
\* holding names[i] and what the read of item i called back with, its error
\* or else its contents, whatever the order the reads completed in
C4_ResultsInInputOrder ==
  ReadFilesFinal =>
    /\ Len(ev.res) = Len(ev.names)
    /\ \A i \in 1..Len(ev.names) :
         /\ i \in {ev.order[k] : k \in 1..Len(ev.order)}
         /\ LET g == ev.got[Place(ev.order, i)]
            IN ev.res[i] =
                 IF Truthy(g.err)
                 THEN [filename |-> ev.names[i], error |-> g.err,
                       contents |-> Absent]
                 ELSE [filename |-> ev.names[i], error |-> "absent",
                       contents |-> g.file]

\* two reads completed in the reverse of the input order, the first name's
\* with an error and the second's with contents
C4_Witness ==
  /\ ReadFilesFinal /\ ev.order = <<2, 1>>
  /\ ev.res[1].error # "absent" /\ ev.res[2].error = "absent"
  /\ ev.res[2].contents.t = "buf"

\* an event of a readFiles: the call, or the callback of one of its reads
ReadFilesEvent ==
  \/ IsCall({"readFiles"})
  \/ IsCallback({"read", "emitread"}) /\ ev.idx > 0 /\ ~ev.ignored

\* C5: readFiles calls back exactly once, with no error, and not before
\* every read has called back; a read that failed shows in its own element
C5_ReadFilesCallsBackOnce ==
  /\ \A id \in DOMAIN calls :
       calls[id].kind = "readFiles" => calls[id].cb = 0
  /\ ReadFilesEvent =>
       /\ ev.cb = (IF ev.open = {} THEN 1 ELSE 0)
       /\ ev.cb = 1 => ev.ferr = "null"
       /\ \A k \in 1..Len(ev.order) :
            Truthy(ev.got[k].err) <=> ev.res[ev.order[k]].error # "absent"

\* the callback comes with the last read, after an earlier read failed
C5_Witness ==
  /\ IsCallback({"read", "emitread"}) /\ ev.idx > 0 /\ ev.final
  /\ Len(ev.order) = 2 /\ Truthy(ev.got[1].err) /\ ev.open = {}

\* an event of a saveFiles: the call, or the callback of one of its saves
SaveFilesEvent ==
  \/ IsCall({"saveFiles"})
  \/ IsCallback({"write", "save"}) /\ ev.idx > 0 /\ ~ev.ignored

Failed(got) == { k \in 1..Len(got) : Truthy(got[k].err) }

\* C6: saveFiles calls back exactly once: with no error only when every save
\* succeeded, otherwise with the error of the first save to fail
C6_SaveFilesCallsBackOnce ==
  /\ IsCall({"saveFiles"}) => (ev.issued = {} => ev.cb = 1)
  /\ SaveFilesEvent =>
       /\ ev.cb <= 1
       /\ ev.open = {} => ev.cb = 1
       /\ (ev.cb = 1 /\ ev.ferr = "null") => (ev.open = {} /\ Failed(ev.got) = {})
       /\ Failed(ev.got) # {} =>
            (ev.cb = 1 /\ ev.ferr = ev.got[CHOOSE k \in Failed(ev.got) :
                                      \A j \in Failed(ev.got) : k <= j].err)

\* C7: with a 'save' and a 'read' listener registered saveFile hands the name
\* and the contents to the 'save' listeners and readFile the name to the
\* 'read' listeners; neither checks, creates, writes or reads anything on
\* disk nor changes the directory-created flag, and neither does the
\* listeners' answer
C7_HandledCall ==
  (IsCall({"saveFile", "readFile"}) /\ ev.nsave > 0 /\ ev.nread > 0)
  => /\ ev.sent = << IF ev.op = "saveFile"
                     THEN [name |-> ev.args[1].name,
                           data |-> Buf(BytesOf(ev.args[1].arg))]
                     ELSE [name |-> ev.args[1], data |-> Undefined] >>
     /\ \A p \in ev.issued : p.kind \in {"save", "emitread"}
     /\ ev.exists = 0 /\ ev.made = <<>> /\ ev.dirsSame /\ ev.raised = "no"
     /\ ev.createdAfter = ev.createdBefore

C7_HandledAnswer ==
  (ev'.op = "callback" /\ ev' # ev /\ ev'.kind \in {"save", "emitread"})
  => UNCHANGED <<dirs, files, directoryCreated>>

C7_HandlersReplaceDisk == []C7_HandledCall /\ [][C7_HandledAnswer]_vars

\* a string is saved through the listeners of a store whose directory does
\* not exist yet
C7_Witness ==
  /\ IsCall({"saveFile"}) /\ ev.nsave > 0 /\ ev.nread > 0
  /\ ev.dir = Str(<<"/", "a", "/", "b">>) /\ ev.args[1].arg.t = "str"
  /\ ~ev.createdBefore

\* C8 as stated: the caller's callback receives the very value the listener
\* supplied, and no error when it supplied none
C8_Verbatim ==
  (IsCallback({"save"}) /\ ev.idx = 0)
  => ev.err = (IF ev.given \in {"undefined", "null"} THEN "null" ELSE ev.given)

\* C8: the caller's callback receives the value the listener supplied when
\* that value is truthy, and null for every falsy one
C8_TruthyVerbatim ==
  (IsCallback({"save"}) /\ ev.idx = 0)
  => ev.err = (IF ev.given \in Falsy THEN "null" ELSE ev.given)

C8_Witness ==
  IsCallback({"save"}) /\ ev.idx = 0 /\ ev.given = "Error: handler"
  /\ ev.err = "Error: handler"

\* C9: no failure of a local save leaves saveFile or saveFiles as an
\* exception; each reaches the caller through the callback
C9_NeverRaises ==
  IsCall({"saveFile", "saveFiles"}) => ev.raised = "no"

\* C10: once a local write has succeeded since the last assignment of
\* directory, a local save checks and creates no directory
C10_SkipsWalk ==
  (IsCall({"saveFile", "saveFiles"}) /\ ev.okBefore
   /\ \E p \in ev.issued : p.kind = "write")
  => (ev.exists = 0 /\ ev.made = <<>>)

\* a saveFile that takes the local path of a store with a directory
LocalSave == IsCall({"saveFile"}) /\ Configured(ev.dir) /\ ev.nsave = 0

\* C11: assigning directory resets the directory-created flag, and the next
\* local saveFile checks and creates the whole tree of the new directory
\* before it writes: unless the filesystem refuses to create the tree the
\* write is issued into a directory that exists, and it never finds the
\* directory missing, whatever was saved before the assignment
C11_NewTreeBeforeWrite ==
  /\ ev.op = "directory=" => ~directoryCreated
  /\ (LocalSave /\ ev.raised = "no") =>
       \E p \in ev.issued : p.kind = "write" /\ Parent(p.path) \in dirs
  /\ (LocalSave /\ ev.raised # "no") => ev.issued = {}
  /\ (IsCallback({"write"}) /\ Configured(ev.dir)) =>
       ev.given \in {"null", "EISDIR"}

\* the prefixes of an absolute path, from the root's child down to the path
Prefixes(p) == [k \in 1..Len(p) |-> SubSeq(p, 1, k)]

\* the prefixes of the path dir, separators normalised, that exist neither
\* as a directory of ds nor as a file, from the root down
Missing(dir, ds) ==
  IF ~DirTruthy(dir) THEN <<>>
  ELSE LET absent(q) == q \notin ds /\ q \notin DOMAIN files
       IN SelectSeq(Prefixes(Resolve(ReplaceBackslash(dir.s))), absent)

Range(seq) == { seq[i] : i \in DOMAIN seq }

\* C12: checkDirExists creates exactly the prefixes of its path that do not
\* exist yet, from the root down, and nothing else (when the filesystem
\* refuses one it stops there); run again after it succeeded it creates
\* nothing and leaves the filesystem as it is
C12_CreatesMissingPrefixes ==
  ev.op = "checkDirExists" =>
    LET want == Missing(ev.dir, ev.before)
    IN /\ ev.raised = "no" => ev.made = want
       /\ ev.raised # "no" => /\ Len(ev.made) < Len(want)
                              /\ ev.made = SubSeq(want, 1, Len(ev.made))
       /\ dirs = ev.before \cup Range(ev.made)
       /\ files \in WalkFiles
       /\ ev.prev = "no" => (ev.made = <<>> /\ dirs = ev.before)

\* /a/b/c on a filesystem where /a exists and /a/b does not: /a/b, then
\* /a/b/c
C12_Witness ==
  /\ ev.op = "checkDirExists"
  /\ ev.dir = Str(<<"/", "a", "/", "b", "/", "c">>)
  /\ << <<"a">> >> \in ev.before
  /\ ev.made = << << <<"a">>, <<"b">> >>, << <<"a">>, <<"b">>, <<"c">> >> >>

\* the local path the store `ev.dir` gives the file `name`
PathIn(dir, name) == Resolve(ToStr(dir) \o <<"/">> \o name)

\* C13: on a store with a directory, a 'save' listener alone takes saveFile
\* over (the name and the contents go to the listeners, the disk is left
\* alone) while readFile reads the file in the directory; a 'read' listener
\* alone takes readFile over while saveFile checks the directory and writes
\* the file in it
C13_EachHandlerItsOwnKind ==
  /\ (IsCall({"saveFile"}) /\ Configured(ev.dir) /\ ev.nsave > 0 /\ ev.nread = 0)
     => /\ ev.sent = << [name |-> ev.args[1].name,
                         data |-> Buf(BytesOf(ev.args[1].arg))] >>
        /\ ev.issued # {} /\ \A p \in ev.issued : p.kind = "save"
        /\ ev.exists = 0 /\ ev.made = <<>> /\ ev.dirsSame /\ ev.raised = "no"
  /\ (IsCall({"readFile"}) /\ Configured(ev.dir) /\ ev.nsave > 0 /\ ev.nread = 0)
     => /\ ev.sent = <<>>
        /\ Cardinality(ev.issued) = 1
        /\ \A p \in ev.issued :
             p.kind = "read" /\ p.path = PathIn(ev.dir, ev.args[1])
  /\ (IsCall({"readFile"}) /\ Configured(ev.dir) /\ ev.nread > 0 /\ ev.nsave = 0)
     => /\ ev.sent = << [name |-> ev.args[1], data |-> Undefined] >>
        /\ ev.issued # {} /\ \A p \in ev.issued : p.kind = "emitread"
  /\ (IsCall({"saveFile"}) /\ Configured(ev.dir) /\ ev.nread > 0 /\ ev.nsave = 0)
     => /\ ev.sent = <<>>
        /\ ev.exists > 0
        /\ ev.raised = "no" =>
             /\ Cardinality(ev.issued) = 1
             /\ \A p \in ev.issued :
                  /\ p.kind = "write"
                  /\ p.path = PathIn(ev.dir, ev.args[1].name)
                  /\ p.data = Buf(BytesOf(ev.args[1].arg))
        /\ ev.raised # "no" => ev.issued = {}

\* with a 'read' listener alone a saveFile creates the directory of the
\* store and issues its write
C13_Witness ==
  /\ IsCall({"saveFile"}) /\ ev.nread > 0 /\ ev.nsave = 0
  /\ ev.dir = Str(<<"/", "a", "/", "b">>) /\ Len(ev.made) = 2
  /\ \E p \in ev.issued : p.kind = "write"

\* every local operation a call issues works on <directory>/<name>, the
\* directory being the one the call found
C14_IssuedUnderDirectory ==
  /\ IsCall({"saveFile", "saveFiles", "readFile"}) =>
       \A p \in ev.issued :
         p.kind \in {"write", "read"} =>
           (p.dir = ev.dir /\ p.path = PathIn(ev.dir, p.name))
  /\ \A p \in pend :
       p.kind \in {"write", "read"} => p.path = PathIn(p.dir, p.name)

\* a write changes the file <dir>/<name> of the directory it was issued under
\* and no other, and a read answers with that file, whatever directory has
\* been assigned since
C14_CompletesWhereIssued ==
  \A p \in pend :
    LET t == PathIn(p.dir, p.name)
    IN /\ WriteComplete(p) =>
            /\ ev'.given = WriteError(t)
            /\ \A q \in DOMAIN files' :
                 q # t => (q \in DOMAIN files /\ files'[q] = files[q])
            /\ IF ev'.given = "null"
               THEN t \in DOMAIN files' /\ files'[t] = p.data.s
               ELSE files' = files
       /\ ReadComplete(p) =>
            /\ ev'.given = ReadError(t)
            /\ ev'.given = "null" => ev'.file = Buf(files[t])

\* C14: a local saveFile or readFile is bound to the directory assigned when
\* it was issued: assigning directory while it is in flight does not change
\* the path it writes or reads, and every file of a saveFiles batch is
\* written in the directory the batch was issued under
C14_BoundToDirectoryAtIssue ==
  []C14_IssuedUnderDirectory /\ [][C14_CompletesWhereIssued]_vars

\* the second write of a batch of two succeeds after the directory was
\* assigned another value, and both files are in the directory of the batch
C14_Witness ==
  /\ IsCallback({"write"}) /\ ev.idx > 0 /\ ev.final /\ ev.ferr = "null"
  /\ Len(ev.names) = 2 /\ ev.open = {}
  /\ Configured(ev.dir) /\ ev.dir # directory
  /\ \A i \in 1..2 : PathIn(ev.dir, ev.names[i]) \in DOMAIN files
  /\ \A i \in 1..2 : PathIn(directory, ev.names[i]) \notin DOMAIN files

\* C15: the directory-created flag is set only once a local write into the
\* directory now assigned has succeeded since the last assignment; it is
\* unset after construction and after every assignment, and no saveFile that
\* is refused as not enabled or handed to the listeners sets it
C15_CreatedMeansWritten ==
  /\ directoryCreated => wroteOK
  /\ ev.op \in {"new", "directory="} => ~directoryCreated
  /\ (IsCall({"saveFile"}) /\ (~ev.enabled \/ ev.nsave > 0)) =>
       ev.createdAfter = ev.createdBefore

====
